---- MODULE Spec2Model ----
(***************************************************************************)
(* Model of the mibig_taxa Python binding (src/src/lib.rs): the TaxonCache *)
(* wrapper with its three query operations, the antiSMASH taxon classifier *)
(* and the conversion of errors to Python exceptions.                      *)
(***************************************************************************)
EXTENDS Integers, Sequences, FiniteSets, TLC

\* Largest tax_id used as a key of the cache.
MaxId == 2

\* Keys a cache may hold, and the ids a caller may ask for (0 is never a key).
Ids == 1..MaxId
QueryIds == 0..MaxId

\* Cache files on disk.
Paths == {"cache.json"}

VARIABLES
    mappings,        \* TaxonCache.mappings: tax_id -> NcbiTaxEntry
    deprecated_ids,  \* TaxonCache.deprecated_ids: old tax_id -> current tax_id
    files,           \* what each path holds on disk
    saved,           \* history: the cache content the last successful save wrote to each path
    dump,            \* the content the taxonomy dumps on disk describe
    last             \* the last call made from Python and what it returned

vars == <<mappings, deprecated_ids, files, saved, dump, last>>

EmptyMap == [k \in {} |-> 0]

----------------------------------------------------------------------------
\* Entries

\* NcbiTaxEntry and PyTaxonEntry hold the same ten fields.
TaxonEntry(tax_id, name, species, genus, family, order, class, phylum, kingdom, superkingdom) ==
    [tax_id |-> tax_id, name |-> name, species |-> species, genus |-> genus,
     family |-> family, order |-> order, class |-> class, phylum |-> phylum,
     kingdom |-> kingdom, superkingdom |-> superkingdom]

\* Rank values the classifier distinguishes, and one value per rank it does not.
Superkingdoms == {"Archaea", "Bacteria", "Eukaryota", "Unknown", "Viruses"}
Kingdoms == {"Fungi", "Viridiplantae", "Unknown", "Metazoa"}
Phyla == {"Rhodophyta", "Bacillariophyta", "Unknown", "Arthropoda"}
Classes == {"Dinophyceae", "Unknown", "Insecta"}

\* Every lineage over the rank values above, for the entry with key id.
LineageEntries(id) ==
    { TaxonEntry(id, "organism", "a species", "a genus", "a family", "an order", c, p, k, s) :
        c \in Classes, p \in Phyla, k \in Kingdoms, s \in Superkingdoms }

\* Two whole entries, one the classifier accepts and one it rejects, used where
\* the cache holds several keys.
SampleEntries(id) ==
    { TaxonEntry(id, "Streptomyces coelicolor", "Streptomyces coelicolor", "Streptomyces",
                 "Streptomycetaceae", "Kitasatosporales", "Actinomycetes", "Actinomycetota",
                 "Unknown", "Bacteria"),
      TaxonEntry(id, "Drosophila melanogaster", "Drosophila melanogaster", "Drosophila",
                 "Drosophilidae", "Diptera", "Insecta", "Arthropoda",
                 "Metazoa", "Eukaryota") }

\* A faulty conversion: kingdom and superkingdom exchanged.
PyTaxonEntry_from_swapped(entry) ==
    [tax_id |-> entry.tax_id, name |-> entry.name, species |-> entry.species,
     genus |-> entry.genus, family |-> entry.family, order |-> entry.order,
     class |-> entry.class, phylum |-> entry.phylum,
     kingdom |-> entry.superkingdom, superkingdom |-> entry.kingdom]

\* impl From<&NcbiTaxEntry> for PyTaxonEntry, field by field.
PyTaxonEntry_from(entry) ==
    [tax_id |-> entry.tax_id, name |-> entry.name, species |-> entry.species,
     genus |-> entry.genus, family |-> entry.family, order |-> entry.order,
     class |-> entry.class, phylum |-> entry.phylum,
     kingdom |-> entry.kingdom, superkingdom |-> entry.superkingdom]

\* impl From<&PyTaxonEntry> for NcbiTaxEntry, field by field.
NcbiTaxEntry_from(entry) ==
    [tax_id |-> entry.tax_id, name |-> entry.name, species |-> entry.species,
     genus |-> entry.genus, family |-> entry.family, order |-> entry.order,
     class |-> entry.class, phylum |-> entry.phylum,
     kingdom |-> entry.kingdom, superkingdom |-> entry.superkingdom]

----------------------------------------------------------------------------
\* Errors and results

\* The three variants of PyMibigTaxonError.
MibigError(e) == [tag |-> "MibigError", e |-> e]
NotFound(id) == [tag |-> "NotFound", id |-> id]
InvalidAntismashTaxon(tax) == [tag |-> "InvalidAntismashTaxon", tax |-> tax]

Digits == <<"0", "1", "2", "3", "4", "5", "6", "7", "8", "9">>

\* Decimal text of an i64, as write!(f, "{}", id) gives it: a sequence of characters.
RECURSIVE FormatNat(_)
FormatNat(n) ==
    IF n < 10 THEN <<Digits[n + 1]>>
    ELSE Append(FormatNat(n \div 10), Digits[(n % 10) + 1])

FormatInt(n) == IF n < 0 THEN <<"-">> \o FormatNat(-n) ELSE FormatNat(n)

\* impl fmt::Display for PyMibigTaxonError: the message as a sequence of pieces.
Display(err) ==
    CASE err.tag = "MibigError" -> <<err.e>>
      [] err.tag = "NotFound" -> <<"ID ">> \o FormatInt(err.id) \o <<" not found">>
      [] err.tag = "InvalidAntismashTaxon" ->
            <<"Can't map taxon ", err.tax, " to an antiSMASH taxon">>

\* A faulty conversion: every error raised as OSError.
PyErr_from_all_os(err) ==
    [ok |-> FALSE, exc |-> "OSError", msg |-> Display(err)]

\* impl From<PyMibigTaxonError> for PyErr: the exception class and its message.
PyErr_from(err) ==
    CASE err.tag = "MibigError" ->
            [ok |-> FALSE, exc |-> "OSError", msg |-> Display(err)]
      [] err.tag \in {"NotFound", "InvalidAntismashTaxon"} ->
            [ok |-> FALSE, exc |-> "ValueError", msg |-> Display(err)]

\* A PyResult: Ok(value) or Err(PyErr).
Ok(value) == [ok |-> TRUE, val |-> value]
Err(err) == PyErr_from(err)

----------------------------------------------------------------------------
\* The classifier

\* A faulty table: the Bacillariophyta arm left out.
get_taxon_from_entry_no_diatoms(entry) ==
    CASE entry.superkingdom \in {"Archaea", "Bacteria"} -> Ok("bacteria")
      [] entry.superkingdom = "Eukaryota" ->
            ( CASE entry.kingdom = "Fungi" -> Ok("fungi")
                [] entry.kingdom = "Viridiplantae" -> Ok("plants")
                [] entry.kingdom = "Unknown" ->
                      ( CASE entry.phylum = "Rhodophyta" -> Ok("plants")
                          [] entry.phylum = "Unknown" ->
                                ( CASE entry.class = "Dinophyceae" -> Ok("plants")
                                    [] OTHER -> Err(InvalidAntismashTaxon(entry.class)) )
                          [] OTHER -> Err(InvalidAntismashTaxon(entry.phylum)) )
                [] OTHER -> Err(InvalidAntismashTaxon(entry.kingdom)) )
      [] OTHER -> Ok("bacteria")

\* A faulty table: every rejection carries the kingdom.
get_taxon_from_entry_reports_kingdom(entry) ==
    CASE entry.superkingdom \in {"Archaea", "Bacteria"} -> Ok("bacteria")
      [] entry.superkingdom = "Eukaryota" ->
            ( CASE entry.kingdom = "Fungi" -> Ok("fungi")
                [] entry.kingdom = "Viridiplantae" -> Ok("plants")
                [] entry.kingdom = "Unknown" ->
                      ( CASE entry.phylum \in {"Rhodophyta", "Bacillariophyta"} -> Ok("plants")
                          [] entry.phylum = "Unknown" ->
                                ( CASE entry.class = "Dinophyceae" -> Ok("plants")
                                    [] OTHER -> Err(InvalidAntismashTaxon(entry.kingdom)) )
                          [] OTHER -> Err(InvalidAntismashTaxon(entry.kingdom)) )
                [] OTHER -> Err(InvalidAntismashTaxon(entry.kingdom)) )
      [] OTHER -> Ok("bacteria")

\* fn get_taxon_from_entry: the nested match, first matching arm wins.
get_taxon_from_entry(entry) ==
    CASE entry.superkingdom \in {"Archaea", "Bacteria"} -> Ok("bacteria")
      [] entry.superkingdom = "Eukaryota" ->
            ( CASE entry.kingdom = "Fungi" -> Ok("fungi")
                [] entry.kingdom = "Viridiplantae" -> Ok("plants")
                [] entry.kingdom = "Unknown" ->
                      ( CASE entry.phylum \in {"Rhodophyta", "Bacillariophyta"} -> Ok("plants")
                          [] entry.phylum = "Unknown" ->
                                ( CASE entry.class = "Dinophyceae" -> Ok("plants")
                                    [] OTHER -> Err(InvalidAntismashTaxon(entry.class)) )
                          [] OTHER -> Err(InvalidAntismashTaxon(entry.phylum)) )
                [] OTHER -> Err(InvalidAntismashTaxon(entry.kingdom)) )
      [] OTHER -> Ok("bacteria")

\* PyTaxonEntry::get_antismash_taxon: back to an NcbiTaxEntry, then classify.
PyTaxonEntry_get_antismash_taxon(self) ==
    LET ncbi_entry == NcbiTaxEntry_from(self)
    IN  get_taxon_from_entry(ncbi_entry)

----------------------------------------------------------------------------
\* The three queries, each with its own copy of the resolution

\* A faulty lookup: deprecated_ids consulted whatever the flag.
get_name_by_id_lenient(m, d, tax_id, allow_deprecated) ==
    IF tax_id \in DOMAIN m THEN Ok(m[tax_id].name)
    ELSE IF tax_id \in DOMAIN d /\ d[tax_id] \in DOMAIN m THEN Ok(m[d[tax_id]].name)
    ELSE Err(NotFound(tax_id))

\* PyTaxonCache::get_name_by_id
get_name_by_id(m, d, tax_id, allow_deprecated) ==
    IF tax_id \in DOMAIN m THEN Ok(m[tax_id].name)
    ELSE IF ~allow_deprecated THEN Err(NotFound(tax_id))
    ELSE IF tax_id \in DOMAIN d /\ d[tax_id] \in DOMAIN m THEN Ok(m[d[tax_id]].name)
    ELSE Err(NotFound(tax_id))

\* A faulty lookup: a rejection by the classifier turned into NotFound.
get_antismash_taxon_wraps(m, d, tax_id, allow_deprecated) ==
    LET found(entry) ==
            IF get_taxon_from_entry(entry).ok THEN get_taxon_from_entry(entry)
            ELSE Err(NotFound(tax_id))
    IN  IF tax_id \in DOMAIN m THEN found(m[tax_id])
        ELSE IF ~allow_deprecated THEN Err(NotFound(tax_id))
        ELSE IF tax_id \in DOMAIN d /\ d[tax_id] \in DOMAIN m THEN found(m[d[tax_id]])
        ELSE Err(NotFound(tax_id))

\* PyTaxonCache::get_antismash_taxon
get_antismash_taxon(m, d, tax_id, allow_deprecated) ==
    IF tax_id \in DOMAIN m THEN get_taxon_from_entry(m[tax_id])
    ELSE IF ~allow_deprecated THEN Err(NotFound(tax_id))
    ELSE IF tax_id \in DOMAIN d /\ d[tax_id] \in DOMAIN m
         THEN get_taxon_from_entry(m[d[tax_id]])
    ELSE Err(NotFound(tax_id))

\* A faulty lookup: deprecated_ids never consulted.
get_no_fallback(m, d, tax_id, allow_deprecated) ==
    IF tax_id \in DOMAIN m THEN Ok(PyTaxonEntry_from(m[tax_id]))
    ELSE Err(NotFound(tax_id))

\* A faulty lookup: the replacement returned under the requested id.
get_keeps_old_id(m, d, tax_id, allow_deprecated) ==
    IF tax_id \in DOMAIN m THEN Ok(PyTaxonEntry_from(m[tax_id]))
    ELSE IF ~allow_deprecated THEN Err(NotFound(tax_id))
    ELSE IF tax_id \in DOMAIN d /\ d[tax_id] \in DOMAIN m
         THEN Ok([PyTaxonEntry_from(m[d[tax_id]]) EXCEPT !.tax_id = tax_id])
    ELSE Err(NotFound(tax_id))

\* PyTaxonCache::get
get(m, d, tax_id, allow_deprecated) ==
    IF tax_id \in DOMAIN m THEN Ok(PyTaxonEntry_from(m[tax_id]))
    ELSE IF ~allow_deprecated THEN Err(NotFound(tax_id))
    ELSE IF tax_id \in DOMAIN d /\ d[tax_id] \in DOMAIN m
         THEN Ok(PyTaxonEntry_from(m[d[tax_id]]))
    ELSE Err(NotFound(tax_id))

----------------------------------------------------------------------------
\* Cache contents

AllSampleEntries == UNION { SampleEntries(id) : id \in Ids }

\* Every mappings table over Ids whose entries carry their key as tax_id.
MappingTables ==
    UNION { { m \in [K -> AllSampleEntries] : \A k \in K : m[k].tax_id = k } :
            K \in SUBSET Ids }

\* Every deprecated_ids table over Ids.
DeprecationTables == UNION { [K -> Ids] : K \in SUBSET Ids }

\* The contents the builder delivers: no deprecated id is a live key, and every
\* deprecated id leads, in one hop, to a live key.
BuiltContents ==
    { c \in [m : MappingTables, d : DeprecationTables] :
        /\ DOMAIN c.d \cap DOMAIN c.m = {}
        /\ \A old \in DOMAIN c.d : c.d[old] \in DOMAIN c.m }

\* The restrictions of a table to a part of its keys.
PartsOf(table) == { [k \in K |-> table[k]] : K \in SUBSET DOMAIN table }

----------------------------------------------------------------------------
\* The mibig_taxa library calls the binding makes

LibOk(value) == [called |-> TRUE, ok |-> TRUE, val |-> value]
LibErr(e) == [called |-> TRUE, ok |-> FALSE, e |-> e]
NoCall == [called |-> FALSE, ok |-> TRUE, val |-> 0]

AbsentFile == [state |-> "absent", bytes |-> <<>>]
CorruptFile == [state |-> "corrupt", bytes |-> <<>>]
ValidFile(bytes) == [state |-> "valid", bytes |-> bytes]

RECURSIVE Ascending(_)
Ascending(S) ==
    IF S = {} THEN <<>>
    ELSE LET least == CHOOSE x \in S : \A y \in S : x <= y
         IN  <<least>> \o Ascending(S \ {least})

EntryFields(e) ==
    <<e.tax_id, e.name, e.species, e.genus, e.family, e.order, e.class, e.phylum,
      e.kingdom, e.superkingdom>>

EntryOfFields(f) ==
    TaxonEntry(f[1], f[2], f[3], f[4], f[5], f[6], f[7], f[8], f[9], f[10])

\* The stored form of a cache: its mappings and its deprecation links, by ascending key.
serialize(m, d) ==
    LET mk == Ascending(DOMAIN m)
        dk == Ascending(DOMAIN d)
    IN  << [i \in DOMAIN mk |-> <<mk[i], EntryFields(m[mk[i]])>>],
           [i \in DOMAIN dk |-> <<dk[i], d[dk[i]]>>] >>

\* The cache a stored form describes.
deserialize(bytes) ==
    LET ms == bytes[1]
        ds == bytes[2]
    IN  [m |-> [k \in { ms[i][1] : i \in DOMAIN ms } |->
                    EntryOfFields(ms[CHOOSE i \in DOMAIN ms : ms[i][1] = k][2])],
         d |-> [k \in { ds[i][1] : i \in DOMAIN ds } |->
                    ds[CHOOSE i \in DOMAIN ds : ds[i][1] = k][2]]]

\* TaxonCache::initialise_from_paths: the outcomes of a build from the dumps. A
\* failed build leaves a part of what the dumps describe.
initialise_from_paths(m, d, dumps) ==
    { [res |-> LibOk("()"), m |-> dumps.m, d |-> dumps.d] }
    \cup { [res |-> LibErr("BuildError"), m |-> pm, d |-> pd] :
             pm \in PartsOf(dumps.m), pd \in PartsOf(dumps.d) }

\* TaxonCache::load_path: replaces the contents by what the file holds.
load_path(m, d, file) ==
    CASE file.state = "absent" -> [res |-> LibErr("IoError"), m |-> m, d |-> d]
      [] file.state = "corrupt" -> [res |-> LibErr("DeserializeError"), m |-> m, d |-> d]
      [] file.state = "valid" ->
            LET c == deserialize(file.bytes)
            IN  [res |-> LibOk(Cardinality(DOMAIN c.m)), m |-> c.m, d |-> c.d]

\* TaxonCache::save_path: the outcomes of writing the cache to a file. A failed
\* write leaves the file as it was or unreadable.
save_path(m, d, file) ==
    { [res |-> LibOk(Cardinality(DOMAIN m)), file |-> ValidFile(serialize(m, d))] }
    \cup { [res |-> LibErr("IoError"), file |-> f] : f \in {file, CorruptFile} }

----------------------------------------------------------------------------
\* Calls from Python

\* #[args(allow_deprecated = "false")]: the flag a call passes, or leaves out.
FlagArgs == {"omitted", "false", "true"}
allow_deprecated_arg(arg) == IF arg = "omitted" THEN FALSE ELSE arg = "true"

NoEntry == TaxonEntry(0, "", "", "", "", "", "", "", "", "")
NoSave == [has |-> FALSE, m |-> EmptyMap, d |-> EmptyMap]

Call(op, id, flag, path, entry, lib, res) ==
    [op |-> op, id |-> id, flag |-> flag, path |-> path, entry |-> entry,
     lib |-> lib, res |-> res]

\* .map_err(PyMibigTaxonError::from)? followed by Ok(value)
map_err(lib, value) == IF lib.ok THEN Ok(value) ELSE Err(MibigError(lib.e))

\* PyTaxonCache::initialise
Initialise ==
    \E out \in initialise_from_paths(mappings, deprecated_ids, dump) :
        /\ mappings' = out.m
        /\ deprecated_ids' = out.d
        /\ last' = Call("initialise", 0, "omitted", "", NoEntry, out.res,
                        map_err(out.res, "None"))
        /\ UNCHANGED <<files, saved, dump>>

\* PyTaxonCache::load
Load(cachefile) ==
    LET out == load_path(mappings, deprecated_ids, files[cachefile])
    IN  /\ mappings' = out.m
        /\ deprecated_ids' = out.d
        /\ last' = Call("load", 0, "omitted", cachefile, NoEntry, out.res,
                        map_err(out.res, IF out.res.ok THEN out.res.val ELSE 0))
        /\ UNCHANGED <<files, saved, dump>>

\* PyTaxonCache::save
Save(cachefile) ==
    \E out \in save_path(mappings, deprecated_ids, files[cachefile]) :
        /\ files' = [files EXCEPT ![cachefile] = out.file]
        /\ saved' = [saved EXCEPT ![cachefile] =
                        IF out.res.ok
                        THEN [has |-> TRUE, m |-> mappings, d |-> deprecated_ids]
                        ELSE IF out.file = files[cachefile] THEN @ ELSE NoSave]
        /\ last' = Call("save", 0, "omitted", cachefile, NoEntry, out.res,
                        map_err(out.res, IF out.res.ok THEN out.res.val ELSE 0))
        /\ UNCHANGED <<mappings, deprecated_ids, dump>>

\* A faulty constructor: the cachefile never loaded.
New_ignores_cachefile(cachefile) ==
    /\ mappings' = EmptyMap
    /\ deprecated_ids' = EmptyMap
    /\ last' = Call("new", 0, "omitted", cachefile, NoEntry, NoCall, Ok("TaxonCache"))
    /\ UNCHANGED <<files, saved, dump>>

\* PyTaxonCache::new: an empty cache, loaded from cachefile when one is given
\* ("" stands for None). When the load fails no object is made and the caller
\* keeps the cache it had.
New(cachefile) ==
    IF cachefile = ""
    THEN /\ mappings' = EmptyMap
         /\ deprecated_ids' = EmptyMap
         /\ last' = Call("new", 0, "omitted", "", NoEntry, NoCall, Ok("TaxonCache"))
         /\ UNCHANGED <<files, saved, dump>>
    ELSE LET out == load_path(EmptyMap, EmptyMap, files[cachefile])
         IN  /\ mappings' = IF out.res.ok THEN out.m ELSE mappings
             /\ deprecated_ids' = IF out.res.ok THEN out.d ELSE deprecated_ids
             /\ last' = Call("new", 0, "omitted", cachefile, NoEntry, out.res,
                             map_err(out.res, "TaxonCache"))
             /\ UNCHANGED <<files, saved, dump>>

\* A faulty get: the entry found through deprecated_ids stored under the old id.
CallGet_memoises ==
    \E id \in QueryIds, arg \in FlagArgs :
        LET res == get(mappings, deprecated_ids, id, allow_deprecated_arg(arg))
        IN  /\ last' = Call("get", id, arg, "", NoEntry, NoCall, res)
            /\ mappings' = IF res.ok /\ id \notin DOMAIN mappings
                           THEN [k \in DOMAIN mappings \cup {id} |->
                                    IF k = id THEN mappings[deprecated_ids[id]]
                                    ELSE mappings[k]]
                           ELSE mappings
            /\ UNCHANGED <<deprecated_ids, files, saved, dump>>

\* a call of PyTaxonCache::get
CallGet ==
    \E id \in QueryIds, arg \in FlagArgs :
        /\ last' = Call("get", id, arg, "", NoEntry, NoCall,
                        get(mappings, deprecated_ids, id, allow_deprecated_arg(arg)))
        /\ UNCHANGED <<mappings, deprecated_ids, files, saved, dump>>

\* a call of PyTaxonCache::get_name_by_id
CallGetNameById ==
    \E id \in QueryIds, arg \in FlagArgs :
        /\ last' = Call("get_name_by_id", id, arg, "", NoEntry, NoCall,
                        get_name_by_id(mappings, deprecated_ids, id, allow_deprecated_arg(arg)))
        /\ UNCHANGED <<mappings, deprecated_ids, files, saved, dump>>

\* a call of PyTaxonCache::get_antismash_taxon
CallGetAntismashTaxon ==
    \E id \in QueryIds, arg \in FlagArgs :
        /\ last' = Call("get_antismash_taxon", id, arg, "", NoEntry, NoCall,
                        get_antismash_taxon(mappings, deprecated_ids, id,
                                            allow_deprecated_arg(arg)))
        /\ UNCHANGED <<mappings, deprecated_ids, files, saved, dump>>

\* a call of PyTaxonEntry::get_antismash_taxon on the entry the last get returned
CallEntryGetAntismashTaxon ==
    /\ last.op = "get"
    /\ last.res.ok
    /\ last' = Call("entry_get_antismash_taxon", last.id, last.flag, "", last.res.val,
                    NoCall, PyTaxonEntry_get_antismash_taxon(last.res.val))
    /\ UNCHANGED <<mappings, deprecated_ids, files, saved, dump>>

----------------------------------------------------------------------------
\* Specifications

\* A process: the cache as PyTaxonCache::new(None) leaves it, no cache file on
\* disk yet, and dumps describing some content.
Init ==
    /\ mappings = EmptyMap
    /\ deprecated_ids = EmptyMap
    /\ files = [p \in Paths |-> AbsentFile]
    /\ saved = [p \in Paths |-> NoSave]
    /\ dump \in BuiltContents
    /\ last = Call("new", 0, "omitted", "", NoEntry, NoCall, Ok("TaxonCache"))

Next ==
    \/ Initialise
    \/ \E p \in Paths : Load(p)
    \/ \E p \in Paths : Save(p)
    \/ \E c \in Paths \cup {""} : New(c)
    \/ CallGet
    \/ CallGetNameById
    \/ CallGetAntismashTaxon
    \/ CallEntryGetAntismashTaxon

Spec == Init /\ [][Next]_vars

\* The queries as functions of the cache content: any two tables over Ids, or a
\* single entry of any lineage.
QueryInit ==
    /\ \/ /\ mappings \in MappingTables
          /\ deprecated_ids \in DeprecationTables
       \/ /\ mappings \in { [k \in {1} |-> e] : e \in LineageEntries(1) }
          /\ deprecated_ids \in { EmptyMap, [k \in {MaxId} |-> 1] }
    /\ files = [p \in Paths |-> AbsentFile]
    /\ saved = [p \in Paths |-> NoSave]
    /\ dump = [m |-> EmptyMap, d |-> EmptyMap]
    /\ last = Call("new", 0, "omitted", "", NoEntry, NoCall, Ok("TaxonCache"))

QueryNext ==
    \/ CallGet
    \/ CallGetNameById
    \/ CallGetAntismashTaxon
    \/ CallEntryGetAntismashTaxon

QuerySpec == QueryInit /\ [][QueryNext]_vars

----------------------------------------------------------------------------
\* What a caller sees

Queries == {"get", "get_name_by_id", "get_antismash_taxon"}

\* The flag of the last call, after the default is applied.
LastFlag == allow_deprecated_arg(last.flag)

\* ValueError("ID <id> not found")
NotFoundRaised(id) ==
    [ok |-> FALSE, exc |-> "ValueError", msg |-> <<"ID ">> \o FormatInt(id) \o <<" not found">>]

\* ValueError("Can't map taxon <value> to an antiSMASH taxon")
InvalidAntismashTaxonRaised(value) ==
    [ok |-> FALSE, exc |-> "ValueError",
     msg |-> <<"Can't map taxon ", value, " to an antiSMASH taxon">>]

\* The entry the last query resolved to, when the cache holds one for it.
Resolvable(id, flag) ==
    \/ id \in DOMAIN mappings
    \/ flag /\ id \in DOMAIN deprecated_ids /\ deprecated_ids[id] \in DOMAIN mappings

Resolved(id) ==
    IF id \in DOMAIN mappings THEN mappings[id] ELSE mappings[deprecated_ids[id]]

SameFields(a, b) ==
    /\ a.tax_id = b.tax_id
    /\ a.name = b.name
    /\ a.species = b.species
    /\ a.genus = b.genus
    /\ a.family = b.family
    /\ a.order = b.order
    /\ a.class = b.class
    /\ a.phylum = b.phylum
    /\ a.kingdom = b.kingdom
    /\ a.superkingdom = b.superkingdom

----------------------------------------------------------------------------
\* C1: strict lookup. A query for an id that is not a key of mappings, with
\* allow_deprecated false or left out, raises NotFound for that id, whatever
\* deprecated_ids holds for the id.
C1_StrictLookup ==
    ( /\ last.op \in Queries
      /\ ~LastFlag
      /\ last.id \notin DOMAIN mappings )
    => last.res = NotFoundRaised(last.id)

C1_Witness ==
    /\ last.op = "get_name_by_id"
    /\ last.flag = "omitted"
    /\ last.id \notin DOMAIN mappings
    /\ last.id \in DOMAIN deprecated_ids
    /\ deprecated_ids[last.id] \in DOMAIN mappings
    /\ last.res = NotFoundRaised(last.id)

\* C3: live key precedence. get for a key of mappings succeeds for every flag and
\* returns the stored entry, field for field, whatever deprecated_ids holds.
C3_LiveKeyPrecedence ==
    ( /\ last.op = "get"
      /\ last.id \in DOMAIN mappings )
    => /\ last.res.ok
       /\ SameFields(last.res.val, mappings[last.id])

C3_Witness ==
    /\ last.op = "get"
    /\ last.flag = "true"
    /\ last.id \in DOMAIN mappings
    /\ last.id \in DOMAIN deprecated_ids
    /\ deprecated_ids[last.id] \in DOMAIN mappings
    /\ mappings[deprecated_ids[last.id]].name # mappings[last.id].name
    /\ last.res.ok
    /\ last.res.val.name = mappings[last.id].name

\* C2: deprecation resolution. For a pair (old_id, new_id) of deprecated_ids
\* whose new_id is a key of mappings, get(old_id, allow_deprecated = true)
\* succeeds with the entry get(new_id, allow_deprecated = false) returns, and
\* its tax_id is new_id.
C2_DeprecationResolution ==
    ( /\ last.op = "get"
      /\ LastFlag
      /\ last.id \in DOMAIN deprecated_ids
      /\ deprecated_ids[last.id] \in DOMAIN mappings )
    => /\ last.res.ok
       /\ last.res = get(mappings, deprecated_ids, deprecated_ids[last.id], FALSE)
       /\ last.res.val.tax_id = deprecated_ids[last.id]

C2_Witness ==
    /\ last.op = "get"
    /\ last.flag = "true"
    /\ last.id \in DOMAIN deprecated_ids
    /\ deprecated_ids[last.id] \in DOMAIN mappings
    /\ deprecated_ids[last.id] # last.id
    /\ last.res.ok
    /\ last.res.val.tax_id = deprecated_ids[last.id]

\* The entry a classification was made of, when the last call made one.
Classifies ==
    \/ last.op = "entry_get_antismash_taxon"
    \/ last.op = "get_antismash_taxon" /\ Resolvable(last.id, LastFlag)

ClassifiedEntry ==
    IF last.op = "entry_get_antismash_taxon" THEN last.entry ELSE Resolved(last.id)

\* C4: the classifier table. Archaea and Bacteria give bacteria; Eukaryota gives
\* fungi for Fungi, plants for Viridiplantae, plants for an Unknown kingdom with
\* phylum Rhodophyta or Bacillariophyta, plants for Unknown kingdom and phylum
\* with class Dinophyceae; every other superkingdom gives bacteria. The ranks
\* below the deciding one play no part.
C4_ClassifierTable ==
    Classifies =>
        LET e == ClassifiedEntry
        IN  /\ e.superkingdom \in {"Archaea", "Bacteria"} => last.res = Ok("bacteria")
            /\ (e.superkingdom = "Eukaryota" /\ e.kingdom = "Fungi")
                   => last.res = Ok("fungi")
            /\ (e.superkingdom = "Eukaryota" /\ e.kingdom = "Viridiplantae")
                   => last.res = Ok("plants")
            /\ ( /\ e.superkingdom = "Eukaryota"
                 /\ e.kingdom = "Unknown"
                 /\ e.phylum \in {"Rhodophyta", "Bacillariophyta"} )
                   => last.res = Ok("plants")
            /\ ( /\ e.superkingdom = "Eukaryota"
                 /\ e.kingdom = "Unknown"
                 /\ e.phylum = "Unknown"
                 /\ e.class = "Dinophyceae" )
                   => last.res = Ok("plants")
            /\ e.superkingdom \notin {"Archaea", "Bacteria", "Eukaryota"}
                   => last.res = Ok("bacteria")

C4_Witness ==
    /\ last.op = "entry_get_antismash_taxon"
    /\ last.entry.superkingdom = "Eukaryota"
    /\ last.entry.kingdom = "Unknown"
    /\ last.entry.phylum = "Bacillariophyta"
    /\ last.entry.class = "Insecta"
    /\ last.res = Ok("plants")

\* C5: classifier rejection. A Eukaryota entry no row covers raises
\* InvalidAntismashTaxon with the value of the first rank that did not match:
\* the kingdom, else the phylum, else the class.
C5_ClassifierRejection ==
    Classifies =>
        LET e == ClassifiedEntry
        IN  e.superkingdom = "Eukaryota" =>
              /\ e.kingdom \notin {"Fungi", "Viridiplantae", "Unknown"}
                     => last.res = InvalidAntismashTaxonRaised(e.kingdom)
              /\ ( /\ e.kingdom = "Unknown"
                   /\ e.phylum \notin {"Rhodophyta", "Bacillariophyta", "Unknown"} )
                     => last.res = InvalidAntismashTaxonRaised(e.phylum)
              /\ ( /\ e.kingdom = "Unknown"
                   /\ e.phylum = "Unknown"
                   /\ e.class # "Dinophyceae" )
                     => last.res = InvalidAntismashTaxonRaised(e.class)

C5_Witness ==
    /\ last.op = "get_antismash_taxon"
    /\ Resolvable(last.id, LastFlag)
    /\ Resolved(last.id).superkingdom = "Eukaryota"
    /\ Resolved(last.id).kingdom = "Unknown"
    /\ Resolved(last.id).phylum = "Unknown"
    /\ Resolved(last.id).class = "Insecta"
    /\ last.res = InvalidAntismashTaxonRaised("Insecta")

\* C6: one resolution policy. get_name_by_id and get_antismash_taxon raise
\* NotFound for the id exactly when get does; where get returns an entry,
\* get_name_by_id returns its name and get_antismash_taxon returns what the
\* classifier makes of it, a rejection staying InvalidAntismashTaxon.
C6_SharedPolicy ==
    last.op \in {"get_name_by_id", "get_antismash_taxon"} =>
        LET g == get(mappings, deprecated_ids, last.id, LastFlag)
        IN  /\ g.ok \/ g = NotFoundRaised(last.id)
            /\ ~g.ok <=> last.res = NotFoundRaised(last.id)
            /\ (g.ok /\ last.op = "get_name_by_id") => last.res = Ok(g.val.name)
            /\ (g.ok /\ last.op = "get_antismash_taxon") =>
                  /\ last.res = get_taxon_from_entry(NcbiTaxEntry_from(g.val))
                  /\ last.res.ok \/ last.res = InvalidAntismashTaxonRaised(last.res.msg[2])

C6_Witness ==
    /\ last.op = "get_antismash_taxon"
    /\ last.flag = "true"
    /\ last.id \notin DOMAIN mappings
    /\ get(mappings, deprecated_ids, last.id, TRUE).ok
    /\ last.res = InvalidAntismashTaxonRaised("Metazoa")

\* C7 as stated: NotFound means absent. When a query raises NotFound for an id,
\* the id is not a key of mappings and, if allow_deprecated was true, not a key
\* of deprecated_ids either.
C7_NotFoundMeansAbsent ==
    ( /\ last.op \in Queries
      /\ last.res = NotFoundRaised(last.id) )
    => /\ last.id \notin DOMAIN mappings
       /\ LastFlag => last.id \notin DOMAIN deprecated_ids

\* C7 as amended: when a query raises NotFound for an id, the id is not a key of
\* mappings and, if allow_deprecated was true, the id is either not a key of
\* deprecated_ids or its replacement is not a key of mappings.
C7_NotFoundMeansUnresolvable ==
    ( /\ last.op \in Queries
      /\ last.res = NotFoundRaised(last.id) )
    => /\ last.id \notin DOMAIN mappings
       /\ LastFlag => \/ last.id \notin DOMAIN deprecated_ids
                      \/ deprecated_ids[last.id] \notin DOMAIN mappings

C7_Witness ==
    /\ last.op = "get"
    /\ last.flag = "true"
    /\ last.id \in DOMAIN deprecated_ids
    /\ deprecated_ids[last.id] \notin DOMAIN mappings
    /\ last.res = NotFoundRaised(last.id)

C9_ErrorCategories ==
    /\ (last.op \in Queries \cup {"entry_get_antismash_taxon"} /\ ~last.res.ok)
          => /\ last.res.exc = "ValueError"
             /\ last.res.msg[1] \in {"ID ", "Can't map taxon "}
    /\ (last.op \in {"initialise", "load", "save", "new"} /\ ~last.res.ok)
          => /\ last.res.exc = "OSError"
             /\ last.lib.called
             /\ ~last.lib.ok
             /\ last.res.msg = <<last.lib.e>>
    /\ (last.lib.called /\ ~last.lib.ok) => ~last.res.ok
    /\ (last.op \in Queries /\ ~Resolvable(last.id, LastFlag)) => ~last.res.ok

C9_Witness ==
    /\ last.op = "get_antismash_taxon"
    /\ last.res = InvalidAntismashTaxonRaised("Metazoa")
    /\ \E p \in Paths : files[p].state = "corrupt"

\* C10: queries and save leave the cache as it is. A step that is a query or a
\* save changes neither mappings nor deprecated_ids; only initialise, load and
\* the construction of a cache set them; a query repeated with the same id and
\* flag gives the same outcome.
C10_Frame ==
    [][ /\ last'.op \in Queries \cup {"entry_get_antismash_taxon", "save"}
            => (mappings' = mappings /\ deprecated_ids' = deprecated_ids)
        /\ (mappings' # mappings \/ deprecated_ids' # deprecated_ids)
            => last'.op \in {"initialise", "load", "new"}
        /\ ( /\ last'.op \in Queries
             /\ last.op = last'.op
             /\ last.id = last'.id
             /\ allow_deprecated_arg(last.flag) = allow_deprecated_arg(last'.flag) )
            => last'.res = last.res ]_vars

C10_Witness ==
    /\ last.op = "save"
    /\ last.res.ok
    /\ DOMAIN mappings # {}
    /\ DOMAIN deprecated_ids # {}

====
